---- MODULE Spec2Model ----
(***************************************************************************)
(* Model of the signal emitter (emit_signal), of the URL-safe signing      *)
(* helpers (sign_data / unsign_data, sign_url_safe / unsign_url_safe) and  *)
(* of upload_file of src/assembly/asm.py and src/flasik/functions.py.  The *)
(* two files hold the same code for these parts; line numbers below are    *)
(* those of asm.py unless flasik is named.                                 *)
(***************************************************************************)
EXTENDS Integers, Sequences, FiniteSets, Bags, TLC

VARIABLES
    registry,          \* blinker namespaces: namespace id -> (channel name -> receivers)
    wrappers,          \* the bag of the wrappers emit_signal has produced
    last,              \* the last call of a wrapper: what ran, in order, and how it ended
    now,               \* the clock (utcnow), in ticks of 1/TicksPerSecond second
    signer_expires_in, \* the class attribute TimestampSigner2.expires_in
    token,             \* the last token produced by sign_data, with what was signed
    unsigned,          \* the outcome of the last unsign_data
    threads,           \* each request thread's place in sign_data / unsign_data
    config,            \* config.get("STORAGE_UPLOAD_FILE_PROPS") of the application
    upload             \* the last call of upload_file: what ran and how it ended

vars == <<registry, wrappers, last, now, signer_expires_in, token, unsigned, threads,
          config, upload>>
sigVars == <<registry, wrappers, last>>
signVars == <<now, signer_expires_in, token, unsigned, threads>>
uploadVars == <<config, upload>>

(***************************************************************************)
(* Bounds of the model.                                                    *)
(***************************************************************************)
MaxWrappers == 2
MaxConnects == 2

(***************************************************************************)
(* Python values.  Every value has the same shape so that values of        *)
(* different Python types can be compared.                                 *)
(***************************************************************************)
NoDict == [k \in {} |-> 0]
NoneV == [t |-> "none", n |-> 0, s |-> "", d |-> NoDict]
IntV(i) == [t |-> "int", n |-> i, s |-> "", d |-> NoDict]
FnV(f) == [t |-> "function", n |-> 0, s |-> f, d |-> NoDict]
DictV(f) == [t |-> "dict", n |-> 0, s |-> "", d |-> f]
EmptyMap == [k \in {} |-> NoneV]

\* dict.update: the keys of d2 override those of d1
Update(d1, d2) ==
    [k \in (DOMAIN d1) \cup (DOMAIN d2) |-> IF k \in DOMAIN d2 THEN d2[k] ELSE d1[k]]

\* dict.pop(key, default), the remaining dict
Without(d, key) == [k \in (DOMAIN d) \ {key} |-> d[k]]

Min(a, b) == IF a < b THEN a ELSE b

Perms(S) ==
    {p \in [1..Cardinality(S) -> S] : \A i, j \in 1..Cardinality(S) : p[i] = p[j] => i = j}

(***************************************************************************)
(* The callables that get decorated.  upload_file, delete_file and         *)
(* send_mail are the emitters of asm.py; the others are callables of an    *)
(* application: two different functions named foo in the same module, a    *)
(* method, a class method, and functions with a parameter named result or  *)
(* action.                                                                 *)
(***************************************************************************)
AppFns == {"foo", "foo_redefined", "bar", "make", "store", "store_default", "run"}
AsmFns == {"upload_file", "send_mail"}
Fns == AppFns \cup AsmFns

\* fn.__module__
FnModule(f) == IF f \in AsmFns THEN "assembly.asm" ELSE "pkg.mod"

\* fn.__name__
FnName(f) ==
    CASE f = "foo_redefined" -> "foo"
      [] f = "store_default" -> "store"
      [] OTHER -> f

\* inspect.getargspec(fn).args
FnArgs(f) ==
    CASE f \in {"foo", "foo_redefined"} -> <<"a", "b">>
      [] f = "bar" -> <<"self", "x">>
      [] f = "make" -> <<"cls", "x">>
      [] f \in {"store", "store_default"} -> <<"key", "result">>
      [] f = "run" -> <<"action">>
      [] f \in AsmFns -> <<"change">>

\* the defaults of the parameters that have one
FnDefaults(f) == IF f = "store_default" THEN [k \in {"result"} |-> IntV(0)] ELSE EmptyMap

\* the name of the ** parameter, "" when the callable has none
FnVarkw(f) == IF f = "send_mail" THEN "kwargs" ELSE ""

ArgSet(f) == {FnArgs(f)[i] : i \in 1..Len(FnArgs(f))}
ArgIndex(f, name) == CHOOSE i \in 1..Len(FnArgs(f)) : FnArgs(f)[i] = name

(***************************************************************************)
(* inspect.getcallargs(fn, *pos, **kw): the binding Python itself makes    *)
(* when fn is called; ok is FALSE where Python raises TypeError.           *)
(***************************************************************************)
getcallargs(f, pos, kw) ==
    LET names == ArgSet(f)
        byPos == {FnArgs(f)[i] : i \in 1..Min(Len(pos), Len(FnArgs(f)))}
        extras == (DOMAIN kw) \ names
        tooMany == Len(pos) > Len(FnArgs(f))
        multiple == (DOMAIN kw) \cap byPos # {}
        unexpected == FnVarkw(f) = "" /\ extras # {}
        missing == names \ (byPos \cup DOMAIN kw \cup DOMAIN FnDefaults(f))
        ok == ~tooMany /\ ~multiple /\ ~unexpected /\ missing = {}
        bound == [k \in names |->
                    IF k \in byPos THEN IntV(pos[ArgIndex(f, k)])
                    ELSE IF k \in DOMAIN kw THEN kw[k]
                    ELSE FnDefaults(f)[k]]
        full == IF FnVarkw(f) = "" THEN bound
                ELSE Update(bound, [k \in {FnVarkw(f)} |-> DictV([e \in extras |-> kw[e].n])])
    IN  [ok |-> ok, map |-> IF ok THEN full ELSE EmptyMap]

(***************************************************************************)
(* emit_signal (asm.py 218-277).                                           *)
(***************************************************************************)
DefaultNs == "default"         \* __signals_namespace (asm.py 215)
ExplicitNs == {"nsA", "nsB"}   \* blinker.Namespace objects made by the application
NoNamespace == "None"          \* namespace=None
NsArgs == {NoNamespace} \cup ExplicitNs
NoSender == "<None>"           \* sender=None
Senders == {NoSender, "", "evt"}
Sites == {"<module>", "setup"} \* co_name of the code block that applies the decorator
Observers == {"p", "q"}
Phases == {"pre", "post"}

\* blinker.Namespace.signal(name): the channel of that name, created when missing
NsSignal(reg, ns, name) ==
    IF name \in DOMAIN reg[ns] THEN reg
    ELSE [reg EXCEPT ![ns] = Update(@, [k \in {name} |-> {}])]

\* `if not namespace: namespace = __signals_namespace`: a Namespace is a dict,
\* and a dict holding nothing is false
ResolveNamespace(reg, nsArg) ==
    IF nsArg = NoNamespace \/ DOMAIN reg[nsArg] = {} THEN DefaultNs ELSE nsArg

\* mutant: the name of the decorating code block is left out
ChannelBase_nosite(f, sender, site) ==
    IF sender \notin {NoSender, ""} THEN sender
    ELSE FnModule(f) \o "__" \o FnName(f)

\* fname of decorator(fn): `if not fname` takes None and "" alike
ChannelBase(f, sender, site) ==
    IF sender \notin {NoSender, ""} THEN sender
    ELSE IF "self" \in ArgSet(f) \/ "cls" \in ArgSet(f)
         THEN FnModule(f) \o "_" \o site \o "__" \o FnName(f)
         ELSE FnModule(f) \o "__" \o FnName(f)

\* mutant: the channel name leaves the base out
SigName_shared(action, fname) == action

\* 'pre_%s' % fname, 'post_%s' % fname
SigName(action, fname) == action \o "_" \o fname

\* mutant: a decoration that finds its channels taken makes new ones
Decorated_fresh(reg, f, sender, nsArg, site) ==
    LET ns == ResolveNamespace(reg, nsArg)
        base == ChannelBase(f, sender, site)
        fname == IF SigName("pre", base) \in DOMAIN reg[ns] THEN base \o "'" ELSE base
    IN  [wrapper |-> [fn |-> f, sender |-> sender, nsArg |-> nsArg, site |-> site,
                      fname |-> fname, ns |-> ns],
         registry |-> NsSignal(NsSignal(reg, ns, SigName("pre", fname)),
                               ns, SigName("post", fname))]

\* decorator(fn): the wrapper, and the registry with fn.pre and fn.post looked up
Decorated(reg, f, sender, nsArg, site) ==
    LET ns == ResolveNamespace(reg, nsArg)
        fname == ChannelBase(f, sender, site)
    IN  [wrapper |-> [fn |-> f, sender |-> sender, nsArg |-> nsArg, site |-> site,
                      fname |-> fname, ns |-> ns],
         registry |-> NsSignal(NsSignal(reg, ns, SigName("pre", fname)),
                               ns, SigName("post", fname))]

\* send(action, *a, **kw) up to the dispatch: what is handed to the channel.
\* wrapper passes the caller's keywords on, so a keyword named action collides
\* with send's own first parameter.
send(action, f, pos, kw) ==
    LET result == IF "result" \in DOMAIN kw THEN kw["result"] ELSE NoneV
        popped == Without(kw, "result")
        ca == getcallargs(f, pos, popped)
        merged == Update(popped, ca.map)
    IN  IF "action" \in DOMAIN kw \/ ~ca.ok
        THEN [ok |-> FALSE, result |-> NoneV, kwargs |-> EmptyMap, sender |-> "",
              emitter |-> NoneV]
        ELSE [ok |-> TRUE,
              result |-> result,
              kwargs |-> merged,
              sender |-> FnName(f),
              emitter |-> IF "self" \in DOMAIN merged THEN merged["self"]
                          ELSE IF "cls" \in DOMAIN merged THEN merged["cls"]
                          ELSE FnV(f)]

\* Signal.send: the receivers are called one after the other; one that raises
\* ends the dispatch.  arg is the positional value the receiver gets.
FirstBad(order, bad) ==
    IF \E i \in 1..Len(order) : order[i] \in bad
    THEN CHOOSE i \in 1..Len(order) :
            order[i] \in bad /\ \A j \in 1..(i - 1) : order[j] \notin bad
    ELSE 0

\* mutant: a receiver that raises does not end the dispatch
Dispatch_isolated(action, chan, order, bad, arg, sk) ==
    [events |-> [i \in 1..Len(order) |->
                    [ev |-> action, who |-> order[i], chan |-> chan, arg |-> arg,
                     kwargs |-> sk.kwargs, sender |-> sk.sender,
                     emitter |-> sk.emitter, raises |-> (order[i] \in bad)]],
     raised |-> ""]

\* mutant: a post receiver that raises is logged and skipped, a pre receiver
\* that raises still ends the dispatch
Dispatch_postguarded(action, chan, order, bad, arg, sk) ==
    LET fb == IF action = "post" THEN 0 ELSE FirstBad(order, bad)
        upto == IF fb = 0 THEN Len(order) ELSE fb
    IN  [events |-> [i \in 1..upto |->
                        [ev |-> action, who |-> order[i], chan |-> chan, arg |-> arg,
                         kwargs |-> sk.kwargs, sender |-> sk.sender,
                         emitter |-> sk.emitter, raises |-> (order[i] \in bad)]],
         raised |-> IF fb = 0 THEN "" ELSE order[fb]]

Dispatch(action, chan, order, bad, arg, sk) ==
    LET fb == FirstBad(order, bad)
        upto == IF fb = 0 THEN Len(order) ELSE fb
    IN  [events |-> [i \in 1..upto |->
                        [ev |-> action, who |-> order[i], chan |-> chan, arg |-> arg,
                         kwargs |-> sk.kwargs, sender |-> sk.sender,
                         emitter |-> sk.emitter, raises |-> (i = fb)]],
         raised |-> IF fb = 0 THEN "" ELSE order[fb]]

NoOutcome == [kind |-> "none", val |-> NoneV, exc |-> "", by |-> ""]
Raised(exc, by) == [kind |-> "raise", val |-> NoneV, exc |-> exc, by |-> by]
Returned(v) == [kind |-> "return", val |-> v, exc |-> "", by |-> ""]

\* the event of fn's body running, with the binding Python made for it; arg is
\* the value the body returned
FnEvent(f, pos, kw, beh) ==
    [ev |-> "fn", who |-> f, chan |-> <<>>,
     arg |-> IF beh.raises THEN NoneV ELSE IntV(beh.ret),
     kwargs |-> getcallargs(f, pos, kw).map,
     sender |-> "", emitter |-> NoneV, raises |-> beh.raises]

\* mutant: the wrapper swallows fn's exception and returns None
FnRaised_swallowed(preEvents, f, pos, kw, beh) ==
    [events |-> preEvents \o <<FnEvent(f, pos, kw, beh)>>, looked |-> {"pre"},
     outcome |-> Returned(NoneV)]

\* `result = fn(*args, **kwargs)` when fn raises: nothing catches it
FnRaised(preEvents, f, pos, kw, beh) ==
    [events |-> preEvents \o <<FnEvent(f, pos, kw, beh)>>, looked |-> {"pre"},
     outcome |-> Raised("FnError", f)]

\* mutant: the wrapper forgets to return fn's value
WrapperResult_dropped(result) == Returned(NoneV)

\* `return result`: what wrapper returns to its caller
WrapperResult(result) == Returned(result)

\* wrapper(*args, **kwargs) (asm.py 269-275): beh is what fn's body does in this
\* call, bad the observers that raise in it, preOrd and postOrd the order in
\* which the two channels call their receivers
wrapper(w, pos, kw, beh, bad, preOrd, postOrd) ==
    LET f == w.fn
        pre == send("pre", f, pos, kw)
        preD == Dispatch("pre", <<w.ns, SigName("pre", w.fname)>>, preOrd, bad, NoneV, pre)
        result == IntV(beh.ret)
        kw2 == Update(kw, [k \in {"result"} |-> result])
        post == send("post", f, pos, kw2)
        postD == Dispatch("post", <<w.ns, SigName("post", w.fname)>>, postOrd, bad,
                          post.result, post)
    IN  IF ~pre.ok
        THEN [events |-> <<>>, looked |-> {}, outcome |-> Raised("TypeError", "send")]
        ELSE IF preD.raised # ""
        THEN [events |-> preD.events, looked |-> {"pre"},
              outcome |-> Raised("ObserverError", preD.raised)]
        ELSE IF ~getcallargs(f, pos, kw).ok
        THEN [events |-> preD.events, looked |-> {"pre"},
              outcome |-> Raised("TypeError", f)]
        ELSE IF beh.raises
        THEN FnRaised(preD.events, f, pos, kw, beh)
        ELSE IF ~post.ok
        THEN [events |-> preD.events \o <<FnEvent(f, pos, kw, beh)>>, looked |-> {"pre"},
              outcome |-> Raised("TypeError", "send")]
        ELSE IF postD.raised # ""
        THEN [events |-> preD.events \o <<FnEvent(f, pos, kw, beh)>> \o postD.events,
              looked |-> {"pre", "post"},
              outcome |-> Raised("ObserverError", postD.raised)]
        ELSE [events |-> preD.events \o <<FnEvent(f, pos, kw, beh)>> \o postD.events,
              looked |-> {"pre", "post"},
              outcome |-> WrapperResult(result)]

(***************************************************************************)
(* The operations on the signals.                                          *)
(***************************************************************************)
RetVals == {7, 8}
FnBehaviours ==
    {[raises |-> TRUE, ret |-> 0]} \cup {[raises |-> FALSE, ret |-> r] : r \in RetVals}

\* the namespaces of the process before any decoration: nsA is freshly
\* created, nsB already holds a channel of the application
InitRegistry ==
    [ns \in {DefaultNs} \cup ExplicitNs |->
        IF ns = "nsB" THEN [k \in {"app_ready"} |-> {}] ELSE [k \in {} |-> {}]]

NoWrapper == [fn |-> "", sender |-> "", nsArg |-> "", site |-> "", fname |-> "", ns |-> ""]
NoCall == [w |-> NoWrapper, pos |-> <<>>, kw |-> EmptyMap, events |-> <<>>,
           outcome |-> NoOutcome]

\* the receivers of a channel, none when the namespace does not hold it
Receivers(reg, ns, name) == IF name \in DOMAIN reg[ns] THEN reg[ns][name] ELSE {}

\* the number of connections made so far
RECURSIVE SumCard(_, _)
SumCard(f, S) ==
    IF S = {} THEN 0
    ELSE LET k == CHOOSE x \in S : TRUE IN Cardinality(f[k]) + SumCard(f, S \ {k})
ConnectCount(reg) ==
    LET perNs == [ns \in DOMAIN reg |-> SumCard(reg[ns], DOMAIN reg[ns])]
    IN  perNs["default"] + perNs["nsA"] + perNs["nsB"]

\* @emit_signal(sender, namespace) applied to fn in the code block site
Decorate(f, sender, nsArg, site) ==
    /\ last = NoCall
    /\ BagCardinality(wrappers) < MaxWrappers
    /\ LET d == Decorated(registry, f, sender, nsArg, site)
       IN  /\ wrappers' = wrappers (+) SetToBag({d.wrapper})
           /\ registry' = d.registry
    /\ UNCHANGED <<last, signVars, uploadVars>>

\* fn.pre.connect(o), fn.post.connect(o) or fn.observe(o) on the wrapper w
Connect(w, phase, o) ==
    /\ last = NoCall
    /\ ConnectCount(registry) < MaxConnects
    /\ o \notin Receivers(registry, w.ns, SigName(phase, w.fname))
    /\ registry' = [registry EXCEPT ![w.ns][SigName(phase, w.fname)] = @ \cup {o}]
    /\ UNCHANGED <<wrappers, last, signVars, uploadVars>>

\* mutant: send builds the channel name from fn.__name__ instead of fname
LookedUp_byname(reg, w, looked) ==
    LET r1 == IF "pre" \in looked THEN NsSignal(reg, w.ns, SigName("pre", FnName(w.fn)))
              ELSE reg
    IN  IF "post" \in looked THEN NsSignal(r1, w.ns, SigName("post", FnName(w.fn))) ELSE r1

\* the registry after send has looked up the channels of the phases in looked
LookedUp(reg, w, looked) ==
    LET r1 == IF "pre" \in looked THEN NsSignal(reg, w.ns, SigName("pre", w.fname)) ELSE reg
    IN  IF "post" \in looked THEN NsSignal(r1, w.ns, SigName("post", w.fname)) ELSE r1

\* a call of the wrapper w with the arguments pos and kw, from start to end;
\* last holds what the caller can observe of it
Call(w, pos, kw, beh, bad) ==
    /\ last = NoCall
    /\ \E preOrd \in Perms(Receivers(registry, w.ns, SigName("pre", w.fname))),
          postOrd \in Perms(Receivers(registry, w.ns, SigName("post", w.fname))) :
        LET r == wrapper(w, pos, kw, beh, bad, preOrd, postOrd)
        IN  /\ last' = [w |-> w, pos |-> pos, kw |-> kw, events |-> r.events,
                        outcome |-> r.outcome]
            /\ registry' = LookedUp(registry, w, r.looked)
            /\ UNCHANGED <<wrappers, signVars, uploadVars>>

\* the caller has the result or the exception of the call and goes on
CallerResumes ==
    /\ last # NoCall
    /\ last' = NoCall
    /\ UNCHANGED <<registry, wrappers, signVars, uploadVars>>

(***************************************************************************)
(* The signing helpers (asm.py 318-335 and 380-424).  A token is kept as   *)
(* the list of its parts, token.split("."): the base64 alphabet has no     *)
(* "." so the parts are what the serializer joined with its separator.     *)
(***************************************************************************)
TicksPerSecond == 2        \* resolution of the clock
MaxTime == 124             \* the clock stops after this many ticks
MaxMinutes == 1            \* largest expires_in, in minutes
LocalUtcOffset == 3600     \* the process's local time is UTC + this many seconds
SecondsPerMinute == 60     \* expires_in *= 60
DefaultExpiresIn == 3600   \* URLSafeTimedSerializer2.__init__(expires_in=3600)
InitialExpiresIn == 0      \* TimestampSigner2.expires_in = 0
TimedTokenParts == 3       \* len(token.split(".")) == 3

\* the data signed: a short mapping and a long repetitive text; the lengths of
\* the compact JSON and of its zlib compression
DataSet == {"id_1", "a_100"}
JsonLen(d) == IF d = "id_1" THEN 8 ELSE 102
ZlibLen(d) == IF d = "id_1" THEN 16 ELSE 13

\* expires_in of sign_data in minutes; 0 stands for None and 0 (`if expires_in`)
ExpiresIns == 0..MaxMinutes

NoParts == <<>>
EmptyPart == [k |-> "empty", d |-> "", n |-> 0, over |-> NoParts]
PayloadPart(d, z) ==
    [k |-> IF z THEN "b64zlib" ELSE "b64json", d |-> d, n |-> 0, over |-> NoParts]
TsPart(n) == [k |-> "ts", d |-> "", n |-> n, over |-> NoParts]
SigPart(value) == [k |-> "sig", d |-> "", n |-> 0, over |-> value]

Front(q) == SubSeq(q, 1, Len(q) - 1)
Last(q) == q[Len(q)]

\* URLSafeSerializerMixin.dump_payload: the JSON is compressed when that saves
\* more than one byte, and a compressed payload is marked with a leading "."
dump_payload(d) ==
    IF ZlibLen(d) < JsonLen(d) - 1 THEN <<EmptyPart, PayloadPart(d, TRUE)>>
    ELSE <<PayloadPart(d, FALSE)>>

\* Signer.sign: value + sep + signature of value
SignerSign(value) == Append(value, SigPart(value))

\* TimestampSigner2.get_timestamp: int(expires.strftime("%s")) reads the naive
\* UTC datetime as local time and keeps whole seconds
get_timestamp(t, expires_in) ==
    ((t + expires_in * TicksPerSecond) \div TicksPerSecond) - LocalUtcOffset

\* TimestampSigner2.timestamp_to_datetime: datetime.fromtimestamp(ts), local
timestamp_to_datetime(ts) == (ts + LocalUtcOffset) * TicksPerSecond

\* TimestampSigner.sign: value + sep + timestamp, then signed
TimestampSignerSign(value, t, expires_in) ==
    SignerSign(Append(value, TsPart(get_timestamp(t, expires_in))))

\* Signer.unsign: the signature is what follows the last separator
SignerUnsign(parts) ==
    IF Len(parts) < 2 THEN [ok |-> FALSE, value |-> NoParts]
    ELSE IF Last(parts) = SigPart(Front(parts)) THEN [ok |-> TRUE, value |-> Front(parts)]
    ELSE [ok |-> FALSE, value |-> NoParts]

\* URLSafeSerializerMixin.load_payload on the parts of the signed value: the
\* outcomes it can have.  A value of more than one part after the mark is
\* base64 text with a "." in it: b64decode drops the "." and decodes the rest,
\* what follows the payload is trailing bytes zlib ignores, unless the padding
\* no longer fits (that depends on the lengths).
LoadOk(d) == [ok |-> TRUE, data |-> d]
LoadBad == [ok |-> FALSE, data |-> ""]
load_payload(value) ==
    IF Len(value) = 1 /\ value[1].k = "b64json" THEN {LoadOk(value[1].d)}
    ELSE IF Len(value) = 2 /\ value[1].k = "empty" /\ value[2].k = "b64zlib"
    THEN {LoadOk(value[2].d)}
    ELSE IF Len(value) > 2 /\ value[1].k = "empty" /\ value[2].k = "b64zlib"
    THEN {LoadOk(value[2].d), LoadBad}
    ELSE {LoadBad}

NoToken == [parts |-> NoParts, data |-> "", signedAt |-> 0, minutes |-> 0]
NoUnsign == [kind |-> "none", val |-> "", exc |-> "", branch |-> ""]
UnsignReturned(d, branch) == [kind |-> "return", val |-> d, exc |-> "", branch |-> branch]
UnsignRaised(exc, branch) == [kind |-> "raise", val |-> "", exc |-> exc, branch |-> branch]

\* the threads that serve requests, and a thread that is in neither call
Threads == {"t1", "t2"}
IdleThread == [pc |-> "idle", data |-> "", minutes |-> 0, tok |-> NoParts]

SignIdle ==
    /\ now = 0
    /\ signer_expires_in = InitialExpiresIn
    /\ token = NoToken
    /\ unsigned = NoUnsign
    /\ threads = [th \in Threads |-> IdleThread]

\* the branch of unsign_data that handles a token
Branch(parts) == IF Len(parts) = TimedTokenParts THEN "timed" ELSE "untimed"

\* s.loads(token, max_age=None, return_timestamp=True) and the expiry test of
\* the timed branch: the outcomes at time t
TimedOutcomes(parts, t) ==
    LET u == SignerUnsign(parts)
    IN  IF ~u.ok THEN {UnsignRaised("BadSignature", "timed")}
        ELSE IF Len(u.value) < 2 THEN {UnsignRaised("BadTimeSignature", "timed")}
        ELSE IF Last(u.value).k # "ts" THEN {UnsignRaised("BadTimeSignature", "timed")}
        ELSE { IF ~l.ok THEN UnsignRaised("BadPayload", "timed")
               ELSE IF timestamp_to_datetime(Last(u.value).n) > t
                    THEN UnsignReturned(l.data, "timed")
                    ELSE UnsignRaised("SignatureExpired", "timed")
               : l \in load_payload(Front(u.value)) }

\* s.loads(token) of the other branch
UntimedOutcomes(parts) ==
    LET u == SignerUnsign(parts)
    IN  IF ~u.ok THEN {UnsignRaised("BadSignature", "untimed")}
        ELSE { IF l.ok THEN UnsignReturned(l.data, "untimed")
               ELSE UnsignRaised("BadPayload", "untimed")
               : l \in load_payload(u.value) }

\* the clock advances
Tick ==
    /\ unsigned = NoUnsign
    /\ now < MaxTime
    /\ now' = now + 1
    /\ UNCHANGED <<sigVars, uploadVars, threads, signer_expires_in, token, unsigned>>

\* sign_data(data, expires_in)
SignData(d, minutes) ==
    /\ unsigned = NoUnsign
    /\ IF minutes # 0
       THEN /\ signer_expires_in' = minutes * SecondsPerMinute
            /\ token' = [parts |-> TimestampSignerSign(dump_payload(d), now,
                                                       signer_expires_in'),
                         data |-> d, signedAt |-> now, minutes |-> minutes]
       ELSE /\ signer_expires_in' = signer_expires_in
            /\ token' = [parts |-> SignerSign(dump_payload(d)),
                         data |-> d, signedAt |-> now, minutes |-> minutes]
    /\ UNCHANGED <<sigVars, uploadVars, threads, now, unsigned>>

\* unsign_data(token) of the last token signed
UnsignData ==
    /\ unsigned = NoUnsign
    /\ token # NoToken
    /\ IF Branch(token.parts) = "timed"
       THEN /\ signer_expires_in' = DefaultExpiresIn
            /\ unsigned' \in TimedOutcomes(token.parts, now)
       ELSE /\ signer_expires_in' = signer_expires_in
            /\ unsigned' \in UntimedOutcomes(token.parts)
    /\ UNCHANGED <<sigVars, uploadVars, threads, now, token>>

\* the caller has the data or the exception of unsign_data and goes on
UnsignDone ==
    /\ unsigned # NoUnsign
    /\ unsigned' = NoUnsign
    /\ UNCHANGED <<sigVars, uploadVars, threads, now, signer_expires_in, token>>

(***************************************************************************)
(* sign_data and unsign_data as the threads of a threaded server run them: *)
(* the statement that constructs the serializer and the statement that     *)
(* uses it are separate steps, and the class attribute                     *)
(* TimestampSigner2.expires_in is shared by all threads.                   *)
(***************************************************************************)
MaxThreadMinutes == 2      \* largest expires_in of a thread's sign_data, in minutes
MaxThreadTime == 1         \* the clock stops after this many ticks

\* sign_data, lines 389-398: the serializer is constructed;
\* URLSafeTimedSerializer2.__init__ writes the class attribute (line 334)
SignDataConstruct(th, d, minutes) ==
    /\ threads[th].pc = "idle"
    /\ threads' = [threads EXCEPT ![th] =
                    [pc |-> "dumps", data |-> d, minutes |-> minutes, tok |-> NoParts]]
    /\ signer_expires_in' = IF minutes # 0 THEN minutes * SecondsPerMinute
                             ELSE signer_expires_in
    /\ UNCHANGED <<sigVars, uploadVars, now, token, unsigned>>

\* sign_data, line 399: s.dumps(data); the signer made for the call reads
\* self.expires_in, which is the class attribute, in get_timestamp
SignDataDumps(th) ==
    /\ threads[th].pc = "dumps"
    /\ LET c == threads[th]
       IN  token' = [parts |-> IF c.minutes # 0
                               THEN TimestampSignerSign(dump_payload(c.data), now,
                                                        signer_expires_in)
                               ELSE SignerSign(dump_payload(c.data)),
                     data |-> c.data, signedAt |-> now, minutes |-> c.minutes]
    /\ threads' = [threads EXCEPT ![th] = IdleThread]
    /\ UNCHANGED <<sigVars, uploadVars, now, signer_expires_in, unsigned>>

\* unsign_data, lines 411-412 and 423: the branch is taken and the serializer
\* constructed; the timed one writes the class attribute with its default
UnsignDataConstruct(th) ==
    /\ threads[th].pc = "idle"
    /\ token # NoToken
    /\ threads' = [threads EXCEPT ![th] =
                    [pc |-> "loads", data |-> "", minutes |-> 0, tok |-> token.parts]]
    /\ signer_expires_in' = IF Branch(token.parts) = "timed" THEN DefaultExpiresIn
                             ELSE signer_expires_in
    /\ UNCHANGED <<sigVars, uploadVars, now, token, unsigned>>

\* unsign_data, lines 413-421 and 424: s.loads(token) and the expiry test
UnsignDataLoads(th) ==
    /\ threads[th].pc = "loads"
    /\ unsigned = NoUnsign
    /\ unsigned' \in IF Branch(threads[th].tok) = "timed"
                      THEN TimedOutcomes(threads[th].tok, now)
                      ELSE UntimedOutcomes(threads[th].tok)
    /\ threads' = [threads EXCEPT ![th] = IdleThread]
    /\ UNCHANGED <<sigVars, uploadVars, now, signer_expires_in, token>>

(***************************************************************************)
(* upload_file(_props_key, file, **kw) (asm.py 75-106, flasik 139-170).    *)
(* The configuration is kept as whether STORAGE_UPLOAD_FILE_PROPS is set   *)
(* and the profiles it holds; a profile maps property names to values.     *)
(***************************************************************************)
Modules == {"assembly.asm", "flasik.functions"}
Profiles == {"profile-image", "avatar"}
NoKey == "<None>"                       \* _props_key=None
PropsKeys == {NoKey} \cup Profiles
PropNames == {"prefix", "public", "name"}

\* the properties a configuration file gives a profile
ProfileProps(p) ==
    IF p = "profile-image" THEN [k \in {"prefix", "public"} |-> IntV(1)]
    ELSE [k \in {"prefix"} |-> IntV(3)]

\* config.get("STORAGE_UPLOAD_FILE_PROPS"): None when the key is not set
NoConf == [set |-> FALSE, profiles |-> [p \in {} |-> EmptyMap]]
Conf(ps) == [set |-> TRUE, profiles |-> [p \in ps |-> ProfileProps(p)]]
Configs == {NoConf} \cup {Conf(ps) : ps \in SUBSET Profiles}

\* `if not conf`: None and a dict holding nothing are false
ConfFalsy(conf) == ~conf.set \/ DOMAIN conf.profiles = {}

\* the module-level names once the module is imported.  asm.py binds
\* upload_file twice, to the function of line 75 and then to the emitter of
\* line 282-284, and the later binding stands; flasik/functions.py binds it once,
\* to the function of line 139.  Neither file imports or assigns signals.
Globals(mod) ==
    IF mod = "assembly.asm"
    THEN [n \in {"upload_file", "delete_file", "send_mail", "storage", "config"} |->
            IF n \in {"upload_file", "delete_file", "send_mail"} THEN "emitter" ELSE "object"]
    ELSE [n \in {"upload_file", "delete_file", "send_mail", "storage"} |->
            IF n \in {"upload_file", "delete_file", "send_mail"} THEN "function" ELSE "object"]

\* the emitter upload_file(change) of asm.py 282-284, as decorated at import
UploadEmitter == Decorated(InitRegistry, "upload_file", NoSender, NoNamespace, "<module>")

NoUpload == [mod |-> "", key |-> "", kw |-> EmptyMap, events |-> <<>>,
             outcome |-> NoOutcome, uploads |-> <<>>]

\* signals.upload_file(lambda: storage.upload(file, **kwargs)): r is the call of
\* the emitter's wrapper; the upload is made when the wrapper runs the lambda
ThroughEmitter(r, kwargs) ==
    [events |-> r.events, looked |-> r.looked,
     uploads |-> IF \E i \in 1..Len(r.events) : r.events[i].ev = "fn"
                 THEN <<kwargs>> ELSE <<>>,
     outcome |-> r.outcome]

\* the body of upload_file (asm.py 96-106): the properties are put together,
\* then line 106 looks the global signals up before anything is uploaded.
\* uploads holds the keyword arguments of each storage.upload made.
UploadBody(mod, conf, key, kw, preOrd, postOrd) ==
    LET kwargs == IF key # NoKey /\ key \in DOMAIN conf.profiles
                  THEN Update(conf.profiles[key], kw) ELSE kw
    IN  IF key # NoKey /\ ConfFalsy(conf)
        THEN [events |-> <<>>, looked |-> {}, uploads |-> <<>>,
              outcome |-> Raised("ValueError", "upload_file")]
        ELSE IF key # NoKey /\ key \notin DOMAIN conf.profiles
        THEN [events |-> <<>>, looked |-> {}, uploads |-> <<>>,
              outcome |-> Raised("ValueError", "upload_file")]
        ELSE IF "signals" \notin DOMAIN Globals(mod)
        THEN [events |-> <<>>, looked |-> {}, uploads |-> <<>>,
              outcome |-> Raised("NameError", "upload_file")]
        ELSE ThroughEmitter(wrapper(UploadEmitter.wrapper, <<1>>, EmptyMap,
                                    [raises |-> FALSE, ret |-> 7], {}, preOrd, postOrd),
                            kwargs)

\* the call upload_file(_props_key, file, **kw) written in the module mod or by
\* a caller that imported the name from it: the name is looked up first
upload_file(mod, conf, key, kw, preOrd, postOrd) ==
    IF Globals(mod)["upload_file"] = "emitter"
    THEN [uploads |-> <<>>] @@ wrapper(UploadEmitter.wrapper, <<1, 2>>, kw,
                                       [raises |-> FALSE, ret |-> 7], {}, preOrd, postOrd)
    ELSE UploadBody(mod, conf, key, kw, preOrd, postOrd)

UploadIdle ==
    /\ config = NoConf
    /\ upload = NoUpload

\* a call of upload_file from start to end
UploadFile(mod, key, kw) ==
    /\ upload = NoUpload
    /\ LET w == UploadEmitter.wrapper
       IN  \E preOrd \in Perms(Receivers(registry, w.ns, SigName("pre", w.fname))),
              postOrd \in Perms(Receivers(registry, w.ns, SigName("post", w.fname))) :
            \E r \in {upload_file(mod, config, key, kw, preOrd, postOrd)} :
                /\ upload' = [mod |-> mod, key |-> key, kw |-> kw, events |-> r.events,
                              outcome |-> r.outcome, uploads |-> r.uploads]
                /\ registry' = LookedUp(registry, w, r.looked)
    /\ UNCHANGED <<wrappers, last, signVars, config>>

\* the caller has the storage object or the exception and goes on
UploadDone ==
    /\ upload # NoUpload
    /\ upload' = NoUpload
    /\ UNCHANGED <<sigVars, signVars, config>>

(***************************************************************************)
(* Specification of decoration, registration and calls.                    *)
(***************************************************************************)
\* positional arguments 1, 2, ... and keyword arguments of value 2
PosArgs(n) == [i \in 1..n |-> i]
KwVals == {2}
KwNames(f) == ArgSet(f) \cup {"extra", "result"}
KwArgs(f) == UNION {[S -> {IntV(v) : v \in KwVals}] : S \in SUBSET KwNames(f)}

Init ==
    /\ registry = InitRegistry
    /\ wrappers = EmptyBag
    /\ last = NoCall
    /\ SignIdle
    /\ UploadIdle

\* the decorator statements of the application, <<fn, sender, namespace>>, all
\* in the code block setup; each may run more than once
Decorations ==
    { <<"foo", NoSender, NoNamespace>>,
      <<"foo_redefined", NoSender, NoNamespace>>,
      <<"foo", "evt", NoNamespace>>,
      <<"bar", "evt", NoNamespace>>,
      <<"foo", NoSender, "nsA">>,
      <<"bar", NoSender, "nsB">> }

DecorateAny ==
    \E d \in Decorations : Decorate(d[1], d[2], d[3], "setup")

ConnectAny ==
    \E w \in BagToSet(wrappers), phase \in Phases, o \in Observers : Connect(w, phase, o)

\* a call with every argument passed by position
\* the observers a call of w reaches
Reached(w) ==
    Receivers(registry, w.ns, SigName("pre", w.fname))
        \cup Receivers(registry, w.ns, SigName("post", w.fname))

CallPlain ==
    \E w \in BagToSet(wrappers), beh \in FnBehaviours :
        \E bad \in SUBSET Reached(w) :
            Call(w, PosArgs(Len(FnArgs(w.fn))), EmptyMap, beh, bad)

Next == DecorateAny \/ ConnectAny \/ CallPlain \/ CallerResumes

Spec == Init /\ [][Next]_vars

(***************************************************************************)
(* Specification of one decoration, with any callable, sender, namespace   *)
(* and decoration site.                                                    *)
(***************************************************************************)
DecorateOnce ==
    /\ wrappers = EmptyBag
    /\ \E f \in Fns, sender \in Senders, nsArg \in NsArgs, site \in Sites :
        Decorate(f, sender, nsArg, site)

NameSpec == Init /\ [][DecorateOnce]_vars

(***************************************************************************)
(* Specification of the calls of one wrapper: any callable of Fns,         *)
(* decorated with @emit_signal() at module level, called with any          *)
(* arguments.                                                              *)
(***************************************************************************)
CallInit ==
    /\ \E f \in Fns, pres \in SUBSET Observers, posts \in SUBSET Observers :
        LET d == Decorated(InitRegistry, f, NoSender, NoNamespace, "<module>")
        IN  /\ wrappers = SetToBag({d.wrapper})
            /\ registry = [d.registry EXCEPT
                            ![d.wrapper.ns][SigName("pre", d.wrapper.fname)] = pres,
                            ![d.wrapper.ns][SigName("post", d.wrapper.fname)] = posts]
    /\ last = NoCall
    /\ SignIdle
    /\ UploadIdle

CallAny ==
    \E w \in BagToSet(wrappers), beh \in FnBehaviours :
        \E bad \in SUBSET Reached(w), n \in 0..Len(FnArgs(w.fn)), kw \in KwArgs(w.fn) :
            Call(w, PosArgs(n), kw, beh, bad)

CallNext == CallAny \/ CallerResumes

CallSpec == CallInit /\ [][CallNext]_vars

(***************************************************************************)
(* Specification of the signing helpers.                                   *)
(***************************************************************************)
SignInit ==
    /\ registry = InitRegistry
    /\ wrappers = EmptyBag
    /\ last = NoCall
    /\ SignIdle
    /\ UploadIdle

SignAny == \E d \in DataSet, minutes \in ExpiresIns : SignData(d, minutes)

SignNext == Tick \/ SignAny \/ UnsignData \/ UnsignDone

SignSpec == SignInit /\ [][SignNext]_vars

(***************************************************************************)
(* Specification of the signing helpers run by several threads.            *)
(***************************************************************************)
ThreadTick == now < MaxThreadTime /\ Tick

ThreadSign ==
    \E th \in Threads, d \in DataSet, minutes \in 0..MaxThreadMinutes :
        SignDataConstruct(th, d, minutes)

ThreadDumps == \E th \in Threads : SignDataDumps(th)

ThreadUnsign == \E th \in Threads : UnsignDataConstruct(th)

ThreadLoads == \E th \in Threads : UnsignDataLoads(th)

ThreadNext ==
    ThreadTick \/ ThreadSign \/ ThreadDumps \/ ThreadUnsign \/ ThreadLoads \/ UnsignDone

ThreadSpec == SignInit /\ [][ThreadNext]_vars

(***************************************************************************)
(* Specification of upload_file: any configuration, with observers         *)
(* connected to the channels of the emitter upload_file.                   *)
(***************************************************************************)
UploadInit ==
    /\ \E pres \in SUBSET Observers, posts \in SUBSET Observers :
        LET d == UploadEmitter
        IN  /\ wrappers = SetToBag({d.wrapper})
            /\ registry = [d.registry EXCEPT
                            ![d.wrapper.ns][SigName("pre", d.wrapper.fname)] = pres,
                            ![d.wrapper.ns][SigName("post", d.wrapper.fname)] = posts]
    /\ last = NoCall
    /\ SignIdle
    /\ config \in Configs
    /\ upload = NoUpload

UploadKwArgs == UNION {[S -> {IntV(v) : v \in KwVals}] : S \in SUBSET PropNames}

UploadAny ==
    \E mod \in Modules, key \in PropsKeys, kw \in UploadKwArgs : UploadFile(mod, key, kw)

UploadNext == UploadAny \/ UploadDone

UploadSpec == UploadInit /\ [][UploadNext]_vars

(***************************************************************************)
(* Properties of a call of a wrapper (CallSpec).                           *)
(***************************************************************************)
Called == last # NoCall
Events == last.events
EvIdx(kind) == {i \in 1..Len(Events) : Events[i].ev = kind}
EvOf(kind, who) == {i \in EvIdx(kind) : Events[i].who = who}
PreObservers == Receivers(registry, last.w.ns, SigName("pre", last.w.fname))
PostObservers == Receivers(registry, last.w.ns, SigName("post", last.w.fname))

\* C1: in a call of the wrapper in which nothing raises, every connected
\* pre-observer is called exactly once and before fn, fn runs exactly once,
\* every connected post-observer is called exactly once and after fn, nothing
\* else runs, and the wrapper returns the value fn returned.
C1_PreFnPostOnce ==
    (Called /\ last.outcome.kind = "return") =>
        /\ \A p \in PreObservers : Cardinality(EvOf("pre", p)) = 1
        /\ \A q \in PostObservers : Cardinality(EvOf("post", q)) = 1
        /\ Cardinality(EvIdx("fn")) = 1
        /\ Len(Events) = Cardinality(PreObservers) + 1 + Cardinality(PostObservers)
        /\ \A i \in EvIdx("pre"), j \in EvIdx("fn") : i < j
        /\ \A j \in EvIdx("fn"), k \in EvIdx("post") : j < k
        /\ \A j \in EvIdx("fn") :
            Events[j].who = last.w.fn /\ last.outcome.val = Events[j].arg

C1_Witness ==
    /\ Called
    /\ last.outcome.kind = "return"
    /\ PreObservers = {"p"}
    /\ PostObservers = {"q"}
    /\ Len(Events) = 3
    /\ last.outcome.val = IntV(8)

\* C2: when a pre-observer raises, fn does not run, no post-observer runs, and
\* the observer's exception reaches the caller of the wrapper.
C2_PreRaiseFailsFast ==
    \A i \in EvIdx("pre") :
        Events[i].raises =>
            /\ EvIdx("fn") = {}
            /\ EvIdx("post") = {}
            /\ last.outcome = Raised("ObserverError", Events[i].who)

C2_Witness ==
    /\ Called
    /\ PostObservers # {}
    /\ \E i \in EvIdx("pre") : Events[i].raises
    /\ getcallargs(last.w.fn, last.pos, last.kw).ok

\* C3: when fn raises, no post-observer runs, fn's exception reaches the caller
\* of the wrapper, and every connected pre-observer has run exactly once.
C3_FnRaisePropagates ==
    \A j \in EvIdx("fn") :
        Events[j].raises =>
            /\ EvIdx("post") = {}
            /\ last.outcome = Raised("FnError", last.w.fn)
            /\ \A p \in PreObservers : Cardinality(EvOf("pre", p)) = 1
            /\ Cardinality(EvIdx("fn")) = 1

C3_Witness ==
    /\ Called
    /\ PreObservers # {}
    /\ PostObservers # {}
    /\ \E j \in EvIdx("fn") : Events[j].raises

\* the value a call supplies for the parameter name of f: the positional
\* argument at the parameter's place, else the keyword argument of that name,
\* else the parameter's default
Supplied(f, pos, kw, name) ==
    IF ArgIndex(f, name) <= Len(pos) THEN IntV(pos[ArgIndex(f, name)])
    ELSE IF name \in DOMAIN kw THEN kw[name]
    ELSE FnDefaults(f)[name]

\* C4: for every call with arguments fn accepts, the wrapper accepts the call,
\* and every pre- and post-observer called gets the same mapping, which binds
\* every parameter name of fn to the value the call supplies for it.
C4_BoundArgsDelivered ==
    (Called /\ getcallargs(last.w.fn, last.pos, last.kw).ok) =>
        /\ ~(last.outcome.kind = "raise" /\ last.outcome.exc = "TypeError")
        /\ \A i \in EvIdx("pre") \cup EvIdx("post") :
            \A name \in ArgSet(last.w.fn) :
                /\ name \in DOMAIN Events[i].kwargs
                /\ Events[i].kwargs[name] = Supplied(last.w.fn, last.pos, last.kw, name)
        /\ \A i \in EvIdx("pre"), k \in EvIdx("post") : Events[i].kwargs = Events[k].kwargs

(***************************************************************************)
(* Properties of decoration (Spec, NameSpec).                              *)
(***************************************************************************)
Wrappers == BagToSet(wrappers)
ChannelsOf(w) == {<<w.ns, SigName("pre", w.fname)>>, <<w.ns, SigName("post", w.fname)>>}
ObserverEvents == EvIdx("pre") \cup EvIdx("post")
SameDecoration(w1, w2) ==
    /\ w1.fn = w2.fn
    /\ w1.sender = w2.sender
    /\ w1.site = w2.site
    /\ w1.nsArg = w2.nsArg

C6_ChannelOwnedByCallable ==
    \A i \in ObserverEvents :
        \A w \in Wrappers :
            w.fn # last.w.fn => Events[i].chan \notin ChannelsOf(w)

\* C6 as amended: a channel belongs to a channel base in a namespace: an observer
\* connected to a wrapper's pre or post channel is never called by a call of a
\* wrapper that has a different channel base or registered in a different
\* namespace.
C6_ChannelOwnedByBase ==
    \A i \in ObserverEvents :
        \A w \in Wrappers :
            (w.fname # last.w.fname \/ w.ns # last.w.ns) =>
                Events[i].chan \notin ChannelsOf(w)

C6_Witness ==
    /\ Called
    /\ ObserverEvents # {}
    /\ \E w \in Wrappers :
        /\ w.fname # last.w.fname
        /\ w.ns = last.w.ns
        /\ Receivers(registry, w.ns, SigName("pre", w.fname)) # {}

\* C7: the two channels of a decoration are in the namespace passed to
\* emit_signal whenever one is passed, in the default namespace otherwise, and a
\* decoration with a namespace adds nothing to the default namespace.
C7_ChannelsInGivenNamespace ==
    \A w \in Wrappers :
        /\ {SigName("pre", w.fname), SigName("post", w.fname)} \subseteq
                DOMAIN registry[IF w.nsArg = NoNamespace THEN DefaultNs ELSE w.nsArg]
        /\ w.nsArg # NoNamespace => DOMAIN registry[DefaultNs] = {}

\* the channel base of a callable decorated without a sender, as the
\* documentation gives it
ExpectedBase(f, site) ==
    CASE f \in {"foo", "foo_redefined"} -> "pkg.mod__foo"
      [] f \in {"store", "store_default"} -> "pkg.mod__store"
      [] f = "run" -> "pkg.mod__run"
      [] f = "upload_file" -> "assembly.asm__upload_file"
      [] f = "send_mail" -> "assembly.asm__send_mail"
      [] f = "bar" /\ site = "setup" -> "pkg.mod_setup__bar"
      [] f = "bar" /\ site = "<module>" -> "pkg.mod_<module>__bar"
      [] f = "make" /\ site = "setup" -> "pkg.mod_setup__make"
      [] f = "make" /\ site = "<module>" -> "pkg.mod_<module>__make"

\* C8: without a sender (None, or the empty string, which the docstring counts
\* as none) the channel base is <module>__<name> for a callable with no self or
\* cls parameter and <module>_<decorating code block>__<name> for one with self
\* or cls; with a sender the channel base is that string.
C8_ChannelBase ==
    \A w \in Wrappers :
        /\ w.sender \in {NoSender, ""} => w.fname = ExpectedBase(w.fn, w.site)
        /\ w.sender \notin {NoSender, ""} => w.fname = w.sender
        /\ "pre_" \o w.fname \in DOMAIN registry[w.ns]
        /\ "post_" \o w.fname \in DOMAIN registry[w.ns]

C8_Witness ==
    \E w \in Wrappers :
        /\ w.fn = "bar"
        /\ w.site = "setup"
        /\ w.sender = NoSender
        /\ w.fname = "pkg.mod_setup__bar"
        /\ "pre_pkg.mod_setup__bar" \in DOMAIN registry[w.ns]

(***************************************************************************)
(* Properties of the signing helpers (SignSpec).                           *)
(***************************************************************************)
Unsigned == unsigned # NoUnsign

\* C9: unsigning a token that was signed without expiry returns the data that
\* was signed, whatever the token looks like: it is handled by the branch for
\* tokens without a timestamp.
C9_UntimedRoundTrip ==
    (Unsigned /\ token.minutes = 0) =>
        /\ unsigned.branch = "untimed"
        /\ unsigned.kind = "return"
        /\ unsigned.val = token.data

\* the time at which a token signed with expires_in minutes has lived its ttl
ExpiryTime(tok) == tok.signedAt + tok.minutes * 60 * TicksPerSecond

\* C10: a token signed with expires_in = t minutes, t > 0, unsigns to the data
\* that was signed as long as unsign runs before signing time + 60 * t
\* seconds, and unsign raises SignatureExpired once that time has passed.
C10_TimedTokenExpiry ==
    (Unsigned /\ token.minutes > 0) =>
        /\ now < ExpiryTime(token) =>
            unsigned.kind = "return" /\ unsigned.val = token.data
        /\ now > ExpiryTime(token) =>
            unsigned.kind = "raise" /\ unsigned.exc = "SignatureExpired"

(***************************************************************************)
(* Properties of upload_file (UploadSpec).                                 *)
(***************************************************************************)
Uploaded == upload # NoUpload
KeyMissing == ConfFalsy(config) \/ upload.key \notin DOMAIN config.profiles

\* C11: a call of upload_file with a profile key fails with an error, and makes
\* no storage upload and no pre or post signal, when STORAGE_UPLOAD_FILE_PROPS is
\* missing or empty or does not hold the key; when it holds the key, exactly one
\* storage upload is made, with the properties of the profile overridden by the
\* keyword arguments of the call.
C11_UploadProfile ==
    (Uploaded /\ upload.key # NoKey) =>
        IF KeyMissing
        THEN /\ upload.outcome.kind = "raise"
             /\ upload.uploads = <<>>
             /\ upload.events = <<>>
        ELSE upload.uploads = <<Update(config.profiles[upload.key], upload.kw)>>

(***************************************************************************)
(* Properties of the registry across calls and registrations (Spec).       *)
(***************************************************************************)
ChannelNames == [ns \in DOMAIN registry |-> DOMAIN registry[ns]]

\* C12: a step that is not a decoration (a call of a wrapper, a registration
\* of an observer, the caller resuming) leaves the channel names of every
\* namespace as they are, and a call dispatches only on the two channels of its
\* wrapper, which the namespace held before the call.
C12_RegistryFrame ==
    [][wrappers' = wrappers =>
        /\ ChannelNames' = ChannelNames
        /\ (last = NoCall /\ last' # NoCall) =>
            \A i \in 1..Len(last'.events) :
                last'.events[i].ev \in Phases =>
                    /\ last'.events[i].chan \in ChannelsOf(last'.w)
                    /\ last'.events[i].chan[2] \in ChannelNames[last'.events[i].chan[1]]]_vars

C12_Witness ==
    /\ Called
    /\ EvIdx("pre") # {}
    /\ EvIdx("post") # {}
    /\ last.outcome.kind = "return"
    /\ ConnectCount(registry) = MaxConnects

(***************************************************************************)
(* A post-observer that raises (CallSpec).                                 *)
(***************************************************************************)
\* C13: when a post-observer raises, its exception reaches the caller of the
\* wrapper in place of fn's return value, no observer runs after it, and fn
\* has run exactly once, before it, and returned.
C13_PostRaiseAborts ==
    \A k \in EvIdx("post") :
        Events[k].raises =>
            /\ last.outcome = Raised("ObserverError", Events[k].who)
            /\ k = Len(Events)
            /\ Cardinality(EvIdx("fn")) = 1
            /\ \A j \in EvIdx("fn") :
                j < k /\ ~Events[j].raises /\ Events[j].who = last.w.fn

C13_Witness ==
    /\ Called
    /\ PreObservers # {}
    /\ Cardinality(PostObservers) = 2
    /\ Cardinality(EvIdx("post")) = 1
    /\ \E k \in EvIdx("post") : Events[k].raises

(***************************************************************************)
(* The expiry a timed token carries (ThreadSpec).                          *)
(***************************************************************************)
\* the expiry time written in a timed token, in ticks
CarriedExpiry(tok) == timestamp_to_datetime(tok.parts[Len(tok.parts) - 1].n)

\* C14: whatever other sign_data and unsign_data calls run between the
\* statements of a sign_data(data, expires_in = t) call, the token it returns
\* carries the expiry time signing time + 60*t seconds, in whole seconds.
C14_ExpiryFromOwnCall ==
    (token # NoToken /\ token.minutes # 0) =>
        /\ CarriedExpiry(token) <= ExpiryTime(token)
        /\ CarriedExpiry(token) > ExpiryTime(token) - TicksPerSecond
====
